---- MODULE Spec2Model ----
(***************************************************************************)
(* Nur-Daily: the date-keyed entry store (App + Dashboard + SettingsView   *)
(* backup/restore), the settings store, the tasbeeh history and the        *)
(* Hijri / inspiration resolvers, modelled as state machines.              *)
(*                                                                         *)
(* The repository carries three builds of the App component (src/App.tsx,  *)
(* src/unnamed/part_004, src/unnamed/part_005).  The variable `build`      *)
(* selects which one is running; it is fixed at start-up.                  *)
(***************************************************************************)
EXTENDS Integers, Sequences, FiniteSets, TLC

\* ------------------------------------------------------------------ bounds
MaxDay == 2
MaxIds == 3
MaxRestoreLen == 2
MaxFree == 2        \* taps on the counter while no target is set
MaxOver == 1        \* taps on the counter past the target
MaxClock == 52      \* the latest time at which a tasbeeh session is logged
MaxInFlight == 2    \* resolver calls waiting for a response at one time

Days == 1..MaxDay
Tods == {0, 1}                      \* time of day inside one UTC day
Ids == 1..MaxIds
TicksPerDay == Cardinality(Tods)

VARIABLES
  build,          \* which App component is mounted: "app" | "p4" | "p5"
  entries,        \* App state `entries` (a JSON value)
  selectedDate,   \* App state `selectedDate`
  lsEntries,      \* localStorage['nur_daily_entries']
  lsPro,          \* localStorage['dailyTrackerProData']
  currentEntry,   \* Dashboard state `currentEntry`
  hijriDateStr,   \* Dashboard state `hijriDateStr`
  syncPending,    \* the entry sync effect is scheduled (a dependency changed);
                  \* React runs it before the next event is handled
  backupFile,     \* the backup file of the last export, kept while the
                  \* collection is as exported
  alertMsg,       \* message shown to the user by the latest step
  settings,       \* App state `settings`
  lsSettings,     \* localStorage['nur_daily_settings']
  count,          \* TasbeehCounter state `count`
  target,         \* TasbeehCounter state `target`
  selectedDhikr,  \* TasbeehCounter state `selectedDhikr` (its label)
  history,        \* TasbeehCounter state `history`
  lsHistory,      \* localStorage['tasbeeh_history']
  clock,          \* the time of the latest logSession call; `new Date()`
                  \* of the next call reads a later time
  apiKey,         \* process.env.API_KEY is set
  raised,         \* the errors that nothing has caught: which reads threw
  second,         \* where the wall clock stands in the day `today`:
                  \* "00:00:00" | "later"
  calendar,       \* what Intl gives for the islamic-umalqura calendar
  hijriCache,     \* localStorage['hijri_accurate_v6_<dateKey>'], by day key
  hijriCalls,     \* per day key, the fetchHijriDateOnline calls that wait
                  \* for the AI response
  hijriReturned,  \* the value of the fetchHijriDateOnline promise that
                  \* settled last, with its day key
  firstCached,    \* per day key, the first string without a Gregorian
                  \* month name that was cached (history of hijriCache)
  service,        \* which islamicService is bundled: "gemini" | "apis"
  today,          \* the calendar day `new Date().toDateString()` gives
  inspCache,      \* localStorage['daily_inspiration_cache']
  inspCalls,      \* the fetchDailyInspiration calls that wait for a response
  inspiration,    \* Dashboard state `inspiration`: what the call that
                  \* completed last returned
  inspiredOn,     \* the calendar day on which that call completed
  timesSync       \* the syncTimes effect of App: whether a run is due, and
                  \* the alarms map each run that awaits its times has
                  \* taken from the settings it was rendered with

entryVars == <<build, entries, selectedDate, lsEntries, lsPro, currentEntry,
               hijriDateStr, syncPending, backupFile, alertMsg>>

settingsVars == <<settings, lsSettings, timesSync>>

tasbeehVars == <<count, target, selectedDhikr, history, lsHistory, clock>>

hijriVars == <<calendar, hijriCache, hijriCalls, hijriReturned, firstCached>>

inspirationVars == <<service, today, inspCache, inspCalls, inspiration,
                     inspiredOn>>

\* the environment: the build's API key, the uncaught errors, the clock
envVars == <<apiKey, raised, second>>

vars == <<entryVars, settingsVars, tasbeehVars, envVars, hijriVars,
          inspirationVars>>

\* what the actions of one part of the program leave alone
restOfEntries == <<settingsVars, tasbeehVars, envVars, hijriVars,
                   inspirationVars>>
restOfTasbeeh == <<entryVars, settingsVars, envVars, hijriVars,
                   inspirationVars>>
restOfHijri == <<entryVars, settingsVars, tasbeehVars, envVars,
                 inspirationVars>>
restOfInspiration == <<entryVars, settingsVars, tasbeehVars, envVars,
                       hijriVars>>
restOfSettings == <<tasbeehVars, envVars, hijriVars, inspirationVars,
                    entries, selectedDate, lsEntries, lsPro, currentEntry,
                    hijriDateStr, syncPending, backupFile, alertMsg>>

\* --------------------------------------------------------------- JSON values
\* In-memory values that can end up in `entries`: an array of entries, or a
\* value that is not an array (restore of a JSON object, string, null).
Arr(items) == [kind |-> "array", items |-> items]
NonArr(k) == [kind |-> k, items |-> <<>>]
NonArrayKinds == {"object", "string", "null"}

\* JSON.stringify yields a text; JSON.parse yields the value back, or throws
\* on a text that is not JSON.  NoItem is what getItem returns for a key that
\* was never written (null).
JSONstringify(v) == [text |-> "json", val |-> v]
GarbageText == [text |-> "garbage", val |-> NonArr("null")]
NoItem == [text |-> "none", val |-> NonArr("null")]
JSONparseThrows(t) == t.text # "json"
JSONparse(t) == t.val

\* ------------------------------------------------------------------- entries
Prayers == {"fajr", "zuhr", "asar", "maghrib", "esha"}

MkDate(d, t) == [day |-> d, tod |-> t]
Dates == {MkDate(d, t) : d \in Days, t \in Tods}
\* new Date(): the wall clock stands at a time of day inside the last day
Now == MkDate(MaxDay, 1)
\* new Date(e.target.value) of the date input: midnight UTC of the picked day
PickedDate(day) == MkDate(day, 0)

\* e.date.split('T')[0]: the day part of the ISO string
DateKey(date) == date.day
\* new Date(e.date).getTime()
GetTime(date) == date.day * TicksPerDay + date.tod

\* useState("...") of hijriDateStr
HijriLoading == [h |-> "...", day |-> 0]
\* the string fetchHijriDateOnline resolves to for a day key
HijriOf(day) == [h |-> "hijri", day |-> day]

NullEntry == [id |-> 0]

\* a blank entry whose quran habit starts at 'No' instead of unset
BlankEntry_QuranNo(id, date, hijri) ==
  [id |-> id, date |-> date, hijriDate |-> hijri,
   prayers |-> [p \in {"fajr", "zuhr", "asar", "maghrib", "esha"} |-> FALSE],
   quran |-> "No", workout |-> "null",
   skill |-> [done |-> "null", notes |-> ""],
   customTasks |-> <<>>, diary |-> ""]

\* the object literal of the entry sync effect
BlankEntry(id, date, hijri) ==
  [id |-> id, date |-> date, hijriDate |-> hijri,
   prayers |-> [p \in Prayers |-> FALSE],
   quran |-> "null", workout |-> "null",
   skill |-> [done |-> "null", notes |-> ""],
   customTasks |-> <<>>, diary |-> ""]

\* Array.prototype.sort((a, b) => time(b) - time(a)): stable, descending
RECURSIVE InsertDesc(_, _)
InsertDesc(sorted, x) ==
  IF sorted = <<>> THEN <<x>>
  ELSE IF GetTime(Head(sorted).date) >= GetTime(x.date)
       THEN <<Head(sorted)>> \o InsertDesc(Tail(sorted), x)
       ELSE <<x>> \o sorted

RECURSIVE SortByDateDesc(_)
SortByDateDesc(s) ==
  IF s = <<>> THEN <<>>
  ELSE InsertDesc(SortByDateDesc(SubSeq(s, 1, Len(s) - 1)), s[Len(s)])

\* a find that compares the whole timestamp instead of the day key
FindByDate_ExactDate(items, date) ==
  LET hits == {i \in 1..Len(items) : items[i].date = date}
  IN IF hits = {} THEN [id |-> 0]
     ELSE items[CHOOSE i \in hits : \A j \in hits : i <= j]

\* entries.find(e => e.date.split('T')[0] === dateStr)
FindByDate(items, date) ==
  LET hits == {i \in 1..Len(items) : DateKey(items[i].date) = DateKey(date)}
  IN IF hits = {} THEN NullEntry
     ELSE items[CHOOSE i \in hits : \A j \in hits : i <= j]

\* an upsert that filters on the exact timestamp and the id, not the day key
UpsertEntries_NoDayFilter(prev, entry) ==
  LET KeepOther(e) == e # entry
  IN SortByDateDesc(<<entry>> \o SelectSeq(prev, KeepOther))

\* the updater of saveEntry: filter out the same day key, prepend, sort
UpsertEntries(prev, entry) ==
  LET KeepOther(e) == DateKey(e.date) # DateKey(entry.date)
  IN SortByDateDesc(<<entry>> \o SelectSeq(prev, KeepOther))

\* prev.filter(e => e.id !== id)
RemoveById(prev, id) ==
  LET KeepId(e) == e.id # id
  IN SelectSeq(prev, KeepId)

\* saveToStorage(records, selectedDate): the value written under
\* 'dailyTrackerProData' (lastUpdated, a wall-clock stamp, is left out)
ProData(records, date) ==
  [records |-> records, selectedDate |-> date,
   currentDateData |-> IF records.kind = "array"
                       THEN FindByDate(records.items, date) ELSE NullEntry]

NoPro == [text |-> "none", val |-> ProData(Arr(<<>>), MkDate(1, 0))]

Builds == {"app", "p4", "p5"}

\* ------------------------------------------------------------ backup files
\* an entry as found in a backup file: a day that was tracked earlier
SampleEntry(id, date) ==
  [BlankEntry(id, date, HijriLoading) EXCEPT !.prayers["fajr"] = TRUE]

SampleList ==
  <<SampleEntry(1, MkDate(1, 0)), SampleEntry(2, MkDate(MaxDay, 0)),
    SampleEntry(3, MkDate(1, 1))>>

SampleEntries == {SampleList[i] : i \in DOMAIN SampleList}

\* backup arrays: up to MaxRestoreLen different sample entries, in the order
\* of SampleList (which is not the order of their dates)
SampleArrays ==
  {SelectSeq(SampleList, LAMBDA e : e \in T) :
     T \in {U \in SUBSET SampleEntries : Cardinality(U) <= MaxRestoreLen}}

Reverse(s) == [i \in 1..Len(s) |-> s[Len(s) + 1 - i]]

\* the files the user can pick in the restore dialog: a file that is not
\* JSON, JSON that is not an array, JSON arrays of entries, and the file
\* written by the last export (as written, or with its array reordered)
FileContents ==
  {GarbageText}
  \cup {JSONstringify(NonArr(k)) : k \in NonArrayKinds}
  \cup {JSONstringify(Arr(a)) : a \in SampleArrays}
  \cup (IF backupFile.text = "json" /\ backupFile.val.kind = "array"
        THEN {backupFile, JSONstringify(Arr(Reverse(backupFile.val.items)))}
        ELSE {})

\* ------------------------------------------------------------- settings
\* { ...a, ...b }: the keys of both, b's value where b has the key
ObjectSpread(a, b) ==
  [k \in (DOMAIN a) \cup (DOMAIN b) |-> IF k \in DOMAIN b THEN b[k] ELSE a[k]]

Alarm(enabled, time) == [enabled |-> enabled, time |-> time]

\* DEFAULT_SETTINGS of each build
DEFAULT_SETTINGS ==
  CASE build = "app" ->
         [theme |-> "light", notificationsEnabled |-> TRUE,
          autoPrayerTimes |-> FALSE, dailyReminderTime |-> "21:30",
          alarms |-> [fajr |-> Alarm(TRUE, "05:15"), zuhr |-> Alarm(TRUE, "13:15"),
                      asar |-> Alarm(TRUE, "16:45"),
                      maghrib |-> Alarm(TRUE, "18:15"),
                      esha |-> Alarm(TRUE, "20:00")]]
    [] build = "p4" ->
         [theme |-> "light", notificationsEnabled |-> FALSE,
          autoPrayerTimes |-> FALSE,
          alarms |-> [fajr |-> Alarm(FALSE, "05:30"), zuhr |-> Alarm(FALSE, "13:30"),
                      asar |-> Alarm(FALSE, "16:30"),
                      maghrib |-> Alarm(FALSE, "18:30"),
                      esha |-> Alarm(FALSE, "20:30")]]
    [] build = "p5" ->
         [theme |-> "system", notificationsEnabled |-> FALSE,
          autoPrayerTimes |-> FALSE,
          alarms |-> [fajr |-> Alarm(FALSE, "05:30"), zuhr |-> Alarm(FALSE, "13:30"),
                      asar |-> Alarm(FALSE, "16:30"),
                      maghrib |-> Alarm(FALSE, "18:30"),
                      esha |-> Alarm(FALSE, "20:30")]]

NoSettingsItem == [text |-> "none", val |-> [theme |-> "none"]]

\* the state of the entry store while only the settings are exercised
EntriesAtRest ==
  /\ entries = Arr(<<>>)
  /\ selectedDate = Now
  /\ lsEntries = NoItem
  /\ lsPro = NoPro
  /\ currentEntry = NullEntry
  /\ hijriDateStr = HijriLoading
  /\ syncPending = TRUE
  /\ backupFile = NoItem
  /\ alertMsg = "none"

\* settings.location, which no default and no control sets
Location(s) == IF "location" \in DOMAIN s THEN s.location ELSE "undefined"

\* the dependency list [settings.autoPrayerTimes, settings.location] of the
\* syncTimes effect differs between two renders
SyncDepsChanged(old, new) ==
  \/ old.autoPrayerTimes # new.autoPrayerTimes
  \/ Location(old) # Location(new)

NoTimesSync == [due |-> FALSE, calls |-> <<>>]

SettingsAtRest ==
  /\ settings = DEFAULT_SETTINGS
  /\ lsSettings = NoSettingsItem
  /\ timesSync = NoTimesSync

\* --------------------------------------------------------------- tasbeeh
\* the labels of DHIKR_OPTIONS
DHIKR_OPTIONS ==
  <<"SubhanAllah", "Alhamdulillah", "AllahuAkbar", "Darood Pak",
    "Astaghfirullah", "La Ilaha Illallah", "SubhanAllah wa Bi-hamdihi",
    "4th Kalma">>

TARGET_OPTIONS == <<33, 100, 313, 1000, 0>>

\* useState(33) of target
DefaultTarget == 33

\* the history buffer of logSession: slice(0, 50)
HistoryCap == 50

\* the phrase and target buttons the counter is exercised with
DhikrInputs == {DHIKR_OPTIONS[1], DHIKR_OPTIONS[2]}
TargetInputs == {TARGET_OPTIONS[1], TARGET_OPTIONS[5]}

\* a TasbeehSession logged at time `at`; the random id is unique per session
\* and the formatted timestamp follows from isoDate
TasbeehSession(label, finalCount, at) ==
  [id |-> at, label |-> label, count |-> finalCount, isoDate |-> at]

\* Array.prototype.slice(from, to)
Slice(s, from, to) ==
  SubSeq(s, from + 1, IF to < Len(s) THEN to ELSE Len(s))

NoHistoryItem == [text |-> "none", val |-> <<>>]

\* the time at which the counter is opened: late enough for a full history
\* of earlier sessions
StartTime == HistoryCap

\* a history that k earlier completions of the default target have left
PastHistory(k) ==
  [i \in 1..k |-> TasbeehSession(DHIKR_OPTIONS[1], DefaultTarget, k + 1 - i)]

TasbeehAtRest ==
  /\ count = 0
  /\ target = DefaultTarget
  /\ selectedDhikr = DHIKR_OPTIONS[1]
  /\ history = <<>>
  /\ lsHistory = NoHistoryItem
  /\ clock = StartTime

\* ---------------------------------------------------------- Hijri strings
\* A Hijri string is [h |-> what kind of text it is, day |-> the day it names]
EmptyString == [h |-> "", day |-> 0]
NoCacheItem == [h |-> "null", day |-> 0]      \* localStorage.getItem: null
IslamicDateUnavailable == [h |-> "Islamic Date Unavailable", day |-> 0]
GregorianText(day) == [h |-> "gregorian", day |-> day]  \* e.g. "5 March, 2025 AH"
FormalText(day) == [h |-> "formal", day |-> day]        \* the AI's spelling
ShortText == [h |-> "short", day |-> 0]                 \* at most 5 characters
\* a sentence of the AI that names no date, e.g. "I cannot determine that."
ProseText == [h |-> "prose", day |-> 0]

\* what the browser's Intl does with 'islamic-umalqura': formats it, falls
\* back to the Gregorian calendar, or throws
Calendars == {"umalqura", "gregory", "throws"}

\* gregorianMonths.some(m => str.toLowerCase().includes(m))
IncludesGregorianMonth(str) == str.h = "gregorian"

\* JavaScript truthiness of a string or null
Truthy(str) == str.h \notin {"", "null"}

\* str.length > 5
LongerThan5(str) == str.h \notin {"", "short"}

\* the cached value is returned as it is
CacheUsable(cached) == Truthy(cached) /\ ~IncludesGregorianMonth(cached)

\* getSystemHijriDate(date)
GetSystemHijriDate(day) ==
  CASE calendar = "umalqura" -> HijriOf(day)
    [] calendar = "gregory" -> GregorianText(day)
    [] calendar = "throws" -> EmptyString

\* response.text?.trim() || "" of the AI
AiTexts(day) ==
  {HijriOf(day), FormalText(day), GregorianText(day), ShortText, EmptyString,
   ProseText}

NoHijriReturned == [day |-> 0, value |-> HijriLoading]

HijriAtRest ==
  /\ calendar = "umalqura"
  /\ hijriCache = [d \in Days |-> NoCacheItem]
  /\ hijriCalls = [d \in Days |-> 0]
  /\ hijriReturned = NoHijriReturned
  /\ firstCached = [d \in Days |-> NoCacheItem]

\* ------------------------------------------------------------ inspiration
\* "gemini": src/services/islamicService.ts; "apis": src/unnamed/part_003
Services == {"gemini", "apis"}

DailyInspiration(ayah, hadith) == [ayah |-> ayah, hadith |-> hadith]

NoInspiration == DailyInspiration("null", "null")
FallbackAyah == "Surah Ash-Sharh (94:6)"
FallbackHadith == "Sahih Bukhari - 5027"
EmptyPart == ""                      \* { arabic: "", urdu: "", ref: "" }
NotFetched == "null"                 \* ayahInspiration = null

\* what the providers can answer with
Ayahs == {"ayah 1", "ayah 2"}
Hadiths == {"hadith 1"}
GeminiResults == {DailyInspiration(a, h) : a \in Ayahs, h \in Hadiths}

NoInspCache == [date |-> 0, data |-> NoInspiration]
\* a stored cache text that JSON.parse does not accept
UnparsableCache == [date |-> -1, data |-> NoInspiration]

InspirationAtRest ==
  /\ service = "gemini"
  /\ today = 1
  /\ inspCache = NoInspCache
  /\ inspCalls = <<>>
  /\ inspiration = NoInspiration
  /\ inspiredOn = 0


\* ------------------------------------------------------------------- Init
InitEntries ==
  /\ build \in Builds
  /\ entries = Arr(<<>>)
  /\ selectedDate = Now
  /\ lsEntries = NoItem
  /\ lsPro = NoPro
  /\ currentEntry = NullEntry
  /\ hijriDateStr = HijriLoading
  /\ syncPending = TRUE
  /\ backupFile = NoItem
  /\ alertMsg = "none"
  /\ SettingsAtRest
  /\ TasbeehAtRest
  /\ apiKey = TRUE
  /\ raised = {}
  /\ second = "later"
  /\ HijriAtRest
  /\ InspirationAtRest

\* ---------------------------------------------------------------- storage
\* a saveToStorage that leaves 'dailyTrackerProData' as it was
PersistEntries_OnlyEntriesKey(records) ==
  /\ lsEntries' = JSONstringify(records)
  /\ lsPro' = lsPro

\* what a mutation of the entry collection writes to localStorage:
\* part_005 goes through saveToStorage (both keys), App.tsx and part_004
\* write 'nur_daily_entries' only
PersistEntries(records) ==
  /\ lsEntries' = JSONstringify(records)
  /\ lsPro' = IF build = "p5"
              THEN JSONstringify(ProData(records, selectedDate))
              ELSE lsPro

\* ------------------------------------------------------------- App actions
\* saveEntry(entry)
SaveEntry(entry) ==
  /\ entries.kind = "array"
  /\ entries' = Arr(UpsertEntries(entries.items, entry))
  /\ PersistEntries(entries')
  /\ syncPending' = TRUE
  /\ alertMsg' = "none"
  /\ backupFile' = NoItem
  /\ UNCHANGED <<build, selectedDate, currentEntry, hijriDateStr>>
  /\ UNCHANGED restOfEntries

\* deleteEntry(id), from the Records view
DeleteEntry(id) ==
  /\ ~syncPending
  /\ entries.kind = "array"
  /\ \E i \in 1..Len(entries.items) : entries.items[i].id = id
  /\ entries' = Arr(RemoveById(entries.items, id))
  /\ PersistEntries(entries')
  /\ syncPending' = TRUE
  /\ alertMsg' = "none"
  /\ backupFile' = NoItem
  /\ UNCHANGED <<build, selectedDate, currentEntry, hijriDateStr>>
  /\ UNCHANGED restOfEntries

\* exportJSON: the downloaded file holds JSON.stringify(entries)
\* (App.tsx passes onExportJSON={() => {}})
ExportJSON ==
  /\ ~syncPending
  /\ build # "app"
  /\ backupFile' = JSONstringify(entries)
  /\ alertMsg' = "none"
  /\ UNCHANGED <<build, entries, selectedDate, lsEntries, lsPro, currentEntry,
                 hijriDateStr, syncPending>>
  /\ UNCHANGED restOfEntries

\* a restore that merges the backup into the prior collection
OnRestoreJSON_Merge(data) ==
  CASE build = "app" ->
         /\ alertMsg' = "none"
         /\ UNCHANGED <<entries, lsEntries, lsPro, syncPending>>
    [] build = "p4" ->
         /\ entries' = IF data.kind = "array" /\ entries.kind = "array"
                       THEN Arr(data.items \o entries.items) ELSE data
         /\ lsEntries' = JSONstringify(entries')
         /\ syncPending' = TRUE
         /\ alertMsg' = "none"
         /\ UNCHANGED lsPro
    [] build = "p5" ->
         IF data.kind # "array"
         THEN /\ alertMsg' = "invalid_format"
              /\ UNCHANGED <<entries, lsEntries, lsPro, syncPending>>
         ELSE /\ entries' = Arr(SortByDateDesc(data.items \o entries.items))
              /\ PersistEntries(entries')
              /\ syncPending' = TRUE
              /\ alertMsg' = "restored"

\* onRestoreJSON(data) as each build passes it to SettingsView
OnRestoreJSON(data) ==
  CASE build = "app" ->
         /\ alertMsg' = "none"
         /\ UNCHANGED <<entries, lsEntries, lsPro, syncPending>>
    [] build = "p4" ->
         /\ entries' = data
         /\ lsEntries' = JSONstringify(data)
         /\ syncPending' = TRUE
         /\ alertMsg' = "none"
         /\ UNCHANGED lsPro
    [] build = "p5" ->
         IF data.kind # "array"
         THEN /\ alertMsg' = "invalid_format"
              /\ UNCHANGED <<entries, lsEntries, lsPro, syncPending>>
         ELSE /\ entries' = Arr(SortByDateDesc(data.items))
              /\ PersistEntries(entries')
              /\ syncPending' = TRUE
              /\ alertMsg' = "restored"

\* SettingsView.handleFileChange with the dialog confirmed: reader.onload
RestoreFile(content) ==
  /\ ~syncPending
  /\ IF JSONparseThrows(content)
     THEN /\ alertMsg' = "parse_failed"
          /\ UNCHANGED <<entries, lsEntries, lsPro, syncPending>>
     ELSE OnRestoreJSON(JSONparse(content))
  /\ backupFile' = IF entries' = entries THEN backupFile ELSE NoItem
  /\ UNCHANGED <<build, selectedDate, currentEntry, hijriDateStr>>
  /\ UNCHANGED restOfEntries

\* the start-up load effect of App, after the page is (re)loaded
StartupLoad ==
  /\ ~(build = "app" /\ lsEntries.text = "garbage")
  /\ IF build = "p5" /\ lsPro.text # "none"
     THEN IF JSONparseThrows(lsPro)
          THEN /\ entries' = Arr(<<>>)
               /\ selectedDate' = Now
          ELSE /\ entries' = Arr(SortByDateDesc(JSONparse(lsPro).records.items))
               /\ selectedDate' = JSONparse(lsPro).selectedDate
     ELSE /\ entries' = IF lsEntries.text = "json"
                        THEN JSONparse(lsEntries) ELSE Arr(<<>>)
          /\ selectedDate' = Now
  /\ currentEntry' = NullEntry
  /\ hijriDateStr' = HijriLoading
  /\ syncPending' = TRUE
  /\ alertMsg' = "none"
  /\ backupFile' = IF entries' = entries THEN backupFile ELSE NoItem
  /\ UNCHANGED <<build, lsEntries, lsPro>>
  /\ UNCHANGED restOfEntries

\* -------------------------------------------------------- Dashboard actions
\* onDateChange(d) / setSelectedDate(d)
SelectDate(d) ==
  /\ ~syncPending
  /\ selectedDate' = d
  /\ syncPending' = TRUE
  /\ alertMsg' = "none"
  /\ UNCHANGED <<build, entries, lsEntries, lsPro, currentEntry,
                 hijriDateStr, backupFile>>
  /\ UNCHANGED restOfEntries

\* the date input of the Dashboard
PickDate(day) == SelectDate(PickedDate(day))

\* handleRefreshToToday
RefreshToToday == SelectDate(Now)

\* handleEditRecord(entry.date), from the Records view
EditRecord(i) ==
  /\ entries.kind = "array"
  /\ i \in 1..Len(entries.items)
  /\ SelectDate(entries.items[i].date)

UsedIds == IF entries.kind = "array"
           THEN {entries.items[i].id : i \in 1..Len(entries.items)} ELSE {}

\* Math.random().toString(36).substr(2, 9): an id no stored entry has.  Ids
\* are opaque to every handler, so the least unused one stands for it.
FreshIds == {i \in Ids \ UsedIds : \A j \in Ids \ UsedIds : i <= j}

\* the entry sync effect of Dashboard (deps: date, entries, hijriDateStr)
SyncEntryEffect ==
  /\ syncPending
  /\ entries.kind = "array"
  /\ LET existing == FindByDate(entries.items, selectedDate)
     IN IF existing # NullEntry
        THEN currentEntry' = existing
        ELSE \E id \in FreshIds :
               currentEntry' = BlankEntry(id, selectedDate, hijriDateStr)
  /\ syncPending' = FALSE
  /\ alertMsg' = "none"
  /\ UNCHANGED <<build, entries, selectedDate, lsEntries, lsPro,
                 hijriDateStr, backupFile>>
  /\ UNCHANGED restOfEntries

PrayerInputs == {"fajr"}

\* updatePrayer(key)
UpdatePrayer(key) ==
  /\ ~syncPending
  /\ currentEntry # NullEntry
  /\ SaveEntry([currentEntry EXCEPT !.prayers[key] = ~currentEntry.prayers[key]])

\* ------------------------------------------------------ settings actions
InitSettings ==
  /\ build \in Builds
  /\ EntriesAtRest
  /\ SettingsAtRest
  /\ TasbeehAtRest
  /\ apiKey = TRUE
  /\ raised = {}
  /\ second = "later"
  /\ HijriAtRest
  /\ InspirationAtRest

\* updateSettings(newSettings): the merged settings are rendered and written
SetSettings(newSettings) ==
  /\ settings' = ObjectSpread(settings, newSettings)
  /\ lsSettings' = JSONstringify(settings')
  /\ UNCHANGED build
  /\ UNCHANGED restOfSettings

\* updateSettings(newSettings) from a control; the syncTimes effect of App
\* is due again when the render changes one of its dependencies
UpdateSettings(newSettings) ==
  /\ SetSettings(newSettings)
  /\ timesSync' =
       [timesSync EXCEPT
          !.due = @ \/ (build = "app" /\ SyncDepsChanged(settings, settings'))]

\* the prayers and values the alarm controls are exercised with
AlarmInputs == {"fajr", "zuhr"}
AlarmTimes == {"04:45"}

\* SettingsView.updateAlarm(prayer, field, value): the full alarms map of the
\* rendered settings with one field of one prayer replaced
UpdateAlarm(prayer, field, value) ==
  /\ prayer \in DOMAIN settings.alarms
  /\ UpdateSettings(
       [alarms |->
          ObjectSpread(settings.alarms,
            [p \in {prayer} |->
               ObjectSpread(settings.alarms[prayer],
                            [f \in {field} |-> value])])])

\* the theme buttons of SettingsView
SetTheme(mode) == UpdateSettings([theme |-> mode])

\* an update whose alarms sub-map names one field of one prayer only,
\* e.g. updateSettings({alarms: {fajr: {enabled: true}}})
UpdatePartialAlarms(prayer, field, value) ==
  UpdateSettings([alarms |-> [p \in {prayer} |-> [f \in {field} |-> value]]])

\* a start-up load in which the defaults are spread over the persisted value
StartupLoadSettings_DefaultsWin ==
  /\ lsSettings.text = "json"
  /\ settings' = ObjectSpread(JSONparse(lsSettings), DEFAULT_SETTINGS)
  /\ timesSync' =
       [due |-> build = "app" /\ SyncDepsChanged(DEFAULT_SETTINGS, settings'),
        calls |-> <<>>]
  /\ UNCHANGED <<build, lsSettings>>
  /\ UNCHANGED restOfSettings

\* the settings half of the start-up load effect
StartupLoadSettings ==
  /\ lsSettings.text = "json"
  /\ settings' = ObjectSpread(DEFAULT_SETTINGS, JSONparse(lsSettings))
  /\ timesSync' =
       [due |-> build = "app" /\ SyncDepsChanged(DEFAULT_SETTINGS, settings'),
        calls |-> <<>>]
  /\ UNCHANGED <<build, lsSettings>>
  /\ UNCHANGED restOfSettings

NextSettings ==
  \/ \E prayer \in AlarmInputs :
       \/ \E value \in BOOLEAN : UpdateAlarm(prayer, "enabled", value)
       \/ \E value \in AlarmTimes : UpdateAlarm(prayer, "time", value)
  \/ \E mode \in {"light", "dark"} : SetTheme(mode)
  \/ \E prayer \in AlarmInputs :
       \/ \E value \in BOOLEAN : UpdatePartialAlarms(prayer, "enabled", value)
       \/ \E value \in AlarmTimes : UpdatePartialAlarms(prayer, "time", value)
  \/ StartupLoadSettings

SpecSettings == InitSettings /\ [][NextSettings]_vars

\* ------------------------------------------------ TasbeehCounter actions
InitTasbeeh ==
  /\ build = "app"          \* TasbeehCounter is the same in every build
  /\ EntriesAtRest
  /\ SettingsAtRest
  /\ apiKey = TRUE
  /\ raised = {}
  /\ second = "later"
  /\ HijriAtRest
  /\ InspirationAtRest
  /\ count = 0
  /\ target = DefaultTarget
  /\ selectedDhikr = DHIKR_OPTIONS[1]
  /\ clock = StartTime
  /\ \E k \in {0, HistoryCap - 1, HistoryCap} :
       /\ lsHistory = IF k = 0 THEN NoHistoryItem
                      ELSE JSONstringify(PastHistory(k))
       /\ history = PastHistory(k)

\* [newEntry, ...history].slice(0, 50), with the new entry at the tail
Updated_Appended(newEntry, hist) ==
  Slice(hist \o <<newEntry>>, 0, HistoryCap)

\* [newEntry, ...history].slice(0, 50)
Updated(newEntry, hist) ==
  Slice(<<newEntry>> \o hist, 0, HistoryCap)

\* logSession(finalCount), called from a handler of the current render
LogSession(finalCount) ==
  LET newEntry == TasbeehSession(selectedDhikr, finalCount, clock + 1)
      updated == Updated(newEntry, history)
  IN /\ clock < MaxClock
     /\ clock' = clock + 1
     /\ history' = updated
     /\ lsHistory' = JSONstringify(updated)

\* handleIncrement() logging at every count from the target on
HandleIncrement_LogsPastTarget ==
  LET newCount == count + 1
  IN /\ count < (IF target > 0 THEN target + MaxOver ELSE MaxFree)
     /\ count' = newCount
     /\ IF target > 0 /\ newCount >= target
          THEN LogSession(newCount)
          ELSE UNCHANGED <<history, lsHistory, clock>>
     /\ UNCHANGED <<target, selectedDhikr>>
     /\ UNCHANGED restOfTasbeeh

\* handleIncrement()
HandleIncrement ==
  LET newCount == count + 1
  IN /\ count < (IF target > 0 THEN target + MaxOver ELSE MaxFree)
     /\ count' = newCount
     /\ IF target > 0 /\ newCount = target
          THEN LogSession(newCount)
          ELSE UNCHANGED <<history, lsHistory, clock>>
     /\ UNCHANGED <<target, selectedDhikr>>
     /\ UNCHANGED restOfTasbeeh

\* resetCount(), reading count and target of the render whose handler runs
ResetCount ==
  /\ IF count > 0 /\ target = 0
       THEN LogSession(count)
       ELSE UNCHANGED <<history, lsHistory, clock>>
  /\ count' = 0
  /\ UNCHANGED restOfTasbeeh

\* the reset button
ClickReset == ResetCount /\ UNCHANGED <<target, selectedDhikr>>

\* a target button: setTarget(val); resetCount()
SelectTarget(val) ==
  /\ target' = val
  /\ ResetCount
  /\ UNCHANGED selectedDhikr

\* a phrase button whose reset logs under the phrase just selected
SelectDhikr_LogsNewPhrase(opt) ==
  /\ selectedDhikr' = opt
  /\ IF count > 0 /\ target = 0
       THEN /\ clock < MaxClock
            /\ clock' = clock + 1
            /\ history' = Updated(TasbeehSession(opt, count, clock + 1),
                                  history)
            /\ lsHistory' = JSONstringify(history')
       ELSE UNCHANGED <<history, lsHistory, clock>>
  /\ count' = 0
  /\ UNCHANGED restOfTasbeeh
  /\ UNCHANGED target

\* a phrase button: setSelectedDhikr(opt); resetCount()
SelectDhikr(opt) ==
  /\ selectedDhikr' = opt
  /\ ResetCount
  /\ UNCHANGED target

\* TasbeehCounter is mounted again: fresh state, then the load effect
MountTasbeeh ==
  /\ count' = 0
  /\ target' = DefaultTarget
  /\ selectedDhikr' = DHIKR_OPTIONS[1]
  /\ history' = IF lsHistory.text = "json" THEN JSONparse(lsHistory) ELSE <<>>
  /\ UNCHANGED <<lsHistory, clock>>
  /\ UNCHANGED restOfTasbeeh

NextTasbeeh ==
  \/ HandleIncrement
  \/ ClickReset
  \/ \E val \in TargetInputs : SelectTarget(val)
  \/ \E opt \in DhikrInputs : SelectDhikr(opt)
  \/ MountTasbeeh

SpecTasbeeh == InitTasbeeh /\ [][NextTasbeeh]_vars

\* ---------------------------------------- Hijri resolver (part_001) actions
\* fetchHijriDateOnline is called by Dashboard.updateHijriDate: from the date
\* effect, from the midnight watcher and from handleRefreshToToday, which
\* also changes the date, so that two calls for one day can overlap.
InitHijri ==
  /\ build = "app"
  /\ EntriesAtRest
  /\ SettingsAtRest
  /\ TasbeehAtRest
  /\ InspirationAtRest
  /\ apiKey \in BOOLEAN
  /\ raised = {}
  /\ second = "later"
  /\ calendar \in Calendars
  /\ hijriCache = [d \in Days |-> NoCacheItem]
  /\ hijriCalls = [d \in Days |-> 0]
  /\ hijriReturned = NoHijriReturned
  /\ firstCached = [d \in Days |-> NoCacheItem]

\* the promise of a call for `day` settles with `value`
ReturnHijri(day, value) ==
  hijriReturned' = [day |-> day, value |-> value]

\* localStorage.setItem(cacheKey, value)
CacheHijri(day, value) ==
  /\ hijriCache' = [hijriCache EXCEPT ![day] = value]
  /\ firstCached' =
       IF firstCached[day] = NoCacheItem /\ CacheUsable(value)
       THEN [firstCached EXCEPT ![day] = value]
       ELSE firstCached

\* a resolver that stores the placeholder under the day key when the local
\* computation fails
FetchHijriDateOnline_CachesPlaceholder(day) ==
  LET cached == hijriCache[day]
      systemDate == GetSystemHijriDate(day)
  IN /\ IF CacheUsable(cached)
          THEN /\ ReturnHijri(day, cached)
               /\ UNCHANGED <<hijriCache, firstCached, hijriCalls>>
        ELSE IF ~Truthy(systemDate)
          THEN /\ CacheHijri(day, IslamicDateUnavailable)
               /\ ReturnHijri(day, IslamicDateUnavailable)
               /\ UNCHANGED hijriCalls
        ELSE IF ~apiKey
          THEN /\ CacheHijri(day, systemDate)
               /\ ReturnHijri(day, systemDate)
               /\ UNCHANGED hijriCalls
        ELSE /\ hijriCalls[day] < MaxInFlight
             /\ hijriCalls' = [hijriCalls EXCEPT ![day] = @ + 1]
             /\ UNCHANGED <<hijriCache, firstCached, hijriReturned>>
     /\ UNCHANGED calendar

\* fetchHijriDateOnline(date) up to its return or to the await of the AI:
\* what it does to the cache, to the calls in flight and to its caller
FetchHijriDateOnline_Body(day) ==
  LET cached == hijriCache[day]
      systemDate == GetSystemHijriDate(day)
  IN /\ IF CacheUsable(cached)
          THEN /\ ReturnHijri(day, cached)
               /\ UNCHANGED <<hijriCache, firstCached, hijriCalls>>
        ELSE IF ~Truthy(systemDate)
          THEN /\ ReturnHijri(day, IslamicDateUnavailable)
               /\ UNCHANGED <<hijriCache, firstCached, hijriCalls>>
        ELSE IF ~apiKey
          THEN \* getAiClient throws inside the try
               /\ CacheHijri(day, systemDate)
               /\ ReturnHijri(day, systemDate)
               /\ UNCHANGED hijriCalls
        ELSE /\ hijriCalls[day] < MaxInFlight
             /\ hijriCalls' = [hijriCalls EXCEPT ![day] = @ + 1]
             /\ UNCHANGED <<hijriCache, firstCached, hijriReturned>>
     /\ UNCHANGED calendar

\* a call of the resolver whose caller keeps no state
FetchHijriDateOnline(day) ==
  /\ FetchHijriDateOnline_Body(day)
  /\ UNCHANGED restOfHijri

\* the AI answers a waiting call with `text`
AiResponds_Body(day, text) ==
  LET systemDate == GetSystemHijriDate(day)
      result == IF LongerThan5(text) /\ ~IncludesGregorianMonth(text)
                THEN text ELSE systemDate
  IN /\ hijriCalls[day] > 0
     /\ hijriCalls' = [hijriCalls EXCEPT ![day] = @ - 1]
     /\ CacheHijri(day, result)
     /\ ReturnHijri(day, result)
     /\ UNCHANGED calendar

AiResponds(day, text) ==
  /\ AiResponds_Body(day, text)
  /\ UNCHANGED restOfHijri

\* the AI request of a waiting call fails (quota, network)
AiFails_Body(day) ==
  LET systemDate == GetSystemHijriDate(day)
  IN /\ hijriCalls[day] > 0
     /\ hijriCalls' = [hijriCalls EXCEPT ![day] = @ - 1]
     /\ CacheHijri(day, systemDate)
     /\ ReturnHijri(day, systemDate)
     /\ UNCHANGED calendar

AiFails(day) ==
  /\ AiFails_Body(day)
  /\ UNCHANGED restOfHijri

NextHijri ==
  \/ \E day \in Days : FetchHijriDateOnline(day)
  \/ \E day \in Days : \E text \in AiTexts(day) : AiResponds(day, text)
  \/ \E day \in Days : AiFails(day)

SpecHijri == InitHijri /\ [][NextHijri]_vars

\* ------------------------------------------- inspiration resolver actions
\* fetchDailyInspiration is called by Dashboard: from the mount effect, from
\* the midnight watcher and from handleRefreshToToday; each call hands its
\* result to setInspiration.
InitInspiration ==
  /\ build = "app"
  /\ EntriesAtRest
  /\ SettingsAtRest
  /\ TasbeehAtRest
  /\ HijriAtRest
  /\ apiKey \in BOOLEAN
  /\ raised = {}
  /\ second = "later"
  /\ service \in Services
  /\ today = 1
  /\ inspCache = NoInspCache
  /\ inspCalls = <<>>
  /\ inspiration = NoInspiration
  /\ inspiredOn = 0

\* getCachedInspiration() throws: the copy of part_003 parses the stored
\* text outside any try
GetCachedInspirationThrows ==
  service = "apis" /\ inspCache = UnparsableCache

\* a cache read that does not compare the stored date with today
GetCachedInspiration_AnyDate ==
  IF inspCache \notin {NoInspCache, UnparsableCache}
  THEN inspCache.data ELSE NoInspiration

\* getCachedInspiration() where it returns; the catch of islamicService.ts
\* returns null
GetCachedInspiration ==
  IF inspCache \notin {NoInspCache, UnparsableCache} /\ inspCache.date = today
  THEN inspCache.data ELSE NoInspiration

\* the fallback of islamicService.ts
GeminiFallback == DailyInspiration(FallbackAyah, FallbackHadith)

\* a call completes with `data`: .then(setInspiration)
ReturnInspiration(data) ==
  /\ inspiration' = data
  /\ inspiredOn' = today

\* the calls in flight without the i-th
WithoutCall(i) ==
  SubSeq(inspCalls, 1, i - 1) \o SubSeq(inspCalls, i + 1, Len(inspCalls))

\* fetchDailyInspiration().then(setInspiration) up to its return or to its
\* first await: what it does to the cache, to the calls in flight and to
\* the Dashboard
FetchDailyInspiration_Body ==
  LET todayStr == today
      cached == GetCachedInspiration
  IN /\ ~GetCachedInspirationThrows
     /\ IF cached # NoInspiration
          THEN /\ ReturnInspiration(cached)
               /\ UNCHANGED <<inspCache, inspCalls>>
        ELSE IF service = "gemini" /\ ~apiKey
          THEN \* getAiClient throws inside the try: the fallback, not cached
               /\ ReturnInspiration(GeminiFallback)
               /\ UNCHANGED <<inspCache, inspCalls>>
        ELSE /\ Len(inspCalls) < MaxInFlight
             /\ inspCalls' = Append(inspCalls,
                  [todayStr |-> todayStr,
                   awaits |-> IF service = "gemini" THEN "ai" ELSE "quran",
                   ayah |-> NotFetched])
             /\ UNCHANGED <<inspCache, inspiration, inspiredOn>>
     /\ UNCHANGED <<service, today>>

\* a call from the mount effect or from handleRefreshToToday
FetchDailyInspiration ==
  /\ FetchDailyInspiration_Body
  /\ UNCHANGED restOfInspiration

\* islamicService.ts: the AI answers the i-th call with a parsable result
GeminiResponds(i, result) ==
  /\ i \in DOMAIN inspCalls
  /\ inspCalls[i].awaits = "ai"
  /\ inspCache' = [date |-> inspCalls[i].todayStr, data |-> result]
  /\ ReturnInspiration(result)
  /\ inspCalls' = WithoutCall(i)
  /\ UNCHANGED <<service, today>>
  /\ UNCHANGED restOfInspiration

\* islamicService.ts: the request or JSON.parse of the i-th call throws
GeminiFails(i) ==
  /\ i \in DOMAIN inspCalls
  /\ inspCalls[i].awaits = "ai"
  /\ ReturnInspiration(GeminiFallback)
  /\ inspCalls' = WithoutCall(i)
  /\ UNCHANGED <<service, today, inspCache>>
  /\ UNCHANGED restOfInspiration

\* a resolution in which a failed verse fetch ends the call: both fallbacks
\* are returned and the Hadith provider is not asked
QuranResponds_AbortsOnFailure(i, ayah) ==
  /\ i \in DOMAIN inspCalls
  /\ inspCalls[i].awaits = "quran"
  /\ IF ayah = FallbackAyah
     THEN /\ inspCalls' = WithoutCall(i)
          /\ ReturnInspiration(DailyInspiration(FallbackAyah, FallbackHadith))
          /\ UNCHANGED inspCache
     ELSE /\ inspCalls' = [inspCalls EXCEPT ![i] =
                             [@ EXCEPT !.awaits = "hadith", !.ayah = ayah]]
          /\ UNCHANGED <<inspCache, inspiration, inspiredOn>>
  /\ UNCHANGED <<service, today>>
  /\ UNCHANGED restOfInspiration

\* part_003, step 1: the Quran provider answers the i-th call with an ayah,
\* with an empty list (EmptyPart later) or not at all (the fallback ayah)
QuranResponds(i, ayah) ==
  /\ i \in DOMAIN inspCalls
  /\ inspCalls[i].awaits = "quran"
  /\ inspCalls' = [inspCalls EXCEPT ![i] =
                     [@ EXCEPT !.awaits = "hadith", !.ayah = ayah]]
  /\ UNCHANGED <<service, today, inspCache, inspiration, inspiredOn>>
  /\ UNCHANGED restOfInspiration

\* part_003, step 2: the Hadith provider answers; the final inspiration is
\* cached under the day on which the call started
HadithResponds(i, hadith) ==
  LET finalInspiration ==
        DailyInspiration(
          IF inspCalls[i].ayah = NotFetched THEN EmptyPart
          ELSE inspCalls[i].ayah,
          IF hadith = NotFetched THEN EmptyPart ELSE hadith)
  IN /\ i \in DOMAIN inspCalls
     /\ inspCalls[i].awaits = "hadith"
     /\ inspCache' = [date |-> inspCalls[i].todayStr,
                      data |-> finalInspiration]
     /\ ReturnInspiration(finalInspiration)
     /\ inspCalls' = WithoutCall(i)
     /\ UNCHANGED <<service, today>>
     /\ UNCHANGED restOfInspiration

\* the calendar date advances
Midnight ==
  /\ today < MaxDay
  /\ today' = today + 1
  /\ UNCHANGED <<service, inspCache, inspCalls, inspiration, inspiredOn>>
  /\ UNCHANGED restOfInspiration

NextInspiration ==
  \/ FetchDailyInspiration
  \/ \E i \in 1..MaxInFlight : \E result \in GeminiResults :
       GeminiResponds(i, result)
  \/ \E i \in 1..MaxInFlight : GeminiFails(i)
  \/ \E i \in 1..MaxInFlight :
       \E ayah \in Ayahs \cup {NotFetched, FallbackAyah} :
         QuranResponds(i, ayah)
  \/ \E i \in 1..MaxInFlight :
       \E hadith \in Hadiths \cup {NotFetched, FallbackHadith} :
         HadithResponds(i, hadith)
  \/ Midnight

SpecInspiration == InitInspiration /\ [][NextInspiration]_vars

NextEntries ==
  \/ \E key \in PrayerInputs : UpdatePrayer(key)
  \/ \E id \in Ids : DeleteEntry(id)
  \/ ExportJSON
  \/ \E content \in FileContents : RestoreFile(content)
  \/ StartupLoad
  \/ \E day \in Days : PickDate(day)
  \/ RefreshToToday
  \/ \E i \in DOMAIN entries.items : EditRecord(i)
  \/ SyncEntryEffect

Next == NextEntries

Spec == InitEntries /\ [][Next]_vars

\* the entry store driven by upserts only (Dashboard edits, date selection,
\* the sync effect and reloads), from the empty store
NextUpsert ==
  \/ \E key \in PrayerInputs : UpdatePrayer(key)
  \/ StartupLoad
  \/ \E day \in Days : PickDate(day)
  \/ RefreshToToday
  \/ SyncEntryEffect

SpecUpsert == InitEntries /\ [][NextUpsert]_vars

\* ------------------------------------------------------------ properties
\* the stored entries whose day key is `day`
StoredFor(v, day) ==
  {v.items[i] : i \in {j \in 1..Len(v.items) : v.items[j].date.day = day}}

\* how many elements of s equal e
Count(s, e) == Cardinality({i \in 1..Len(s) : s[i] = e})

SameBag(s, t) ==
  /\ Len(s) = Len(t)
  /\ \A i \in 1..Len(s) : Count(s, s[i]) = Count(t, s[i])

IsBlank(e) ==
  /\ \A p \in Prayers : e.prayers[p] = FALSE
  /\ e.quran = "null" /\ e.workout = "null" /\ e.skill.done = "null"
  /\ e.customTasks = <<>> /\ e.diary = ""

\* C1: from the empty store, under upserts only, the collection never holds
\* two entries with the same day key, and for every day key the stored entry
\* is the one passed to the last upsert for that key: an upsert of e leaves
\* exactly e stored under e's key, and a step that is not an upsert for a
\* key leaves what is stored under that key as it was.
C1_UpsertLastWriteWins ==
  /\ [](entries.kind = "array" /\
        \A i, j \in 1..Len(entries.items) :
           i # j => entries.items[i].date.day # entries.items[j].date.day)
  /\ [][\A day \in Days :
          /\ \A key \in PrayerInputs :
               (UpdatePrayer(key) /\ currentEntry.date.day = day) =>
                 StoredFor(entries', day) =
                   {[currentEntry EXCEPT
                       !.prayers[key] = ~currentEntry.prayers[key]]}
          /\ ~(\E key \in PrayerInputs :
                 UpdatePrayer(key) /\ currentEntry.date.day = day) =>
               StoredFor(entries', day) = StoredFor(entries, day)]_vars

\* C1 witness: a day upserted twice (its stored entry is back to fajr =
\* FALSE) next to a stored entry of another day
C1_Witness ==
  /\ entries.kind = "array" /\ Len(entries.items) = 2
  /\ entries.items[1].prayers["fajr"] = FALSE
  /\ entries.items[2].prayers["fajr"] = TRUE

\* C2: right after upsert(e), a query for any date with e's day key, at any
\* time of day, returns e; and a query for a date under whose day key
\* nothing is stored returns the "none" signal.
C2_QueryAfterUpsert ==
  /\ [][\A key \in PrayerInputs :
          UpdatePrayer(key) =>
            \A t \in Tods :
              FindByDate(entries'.items, MkDate(currentEntry.date.day, t)) =
                [currentEntry EXCEPT
                   !.prayers[key] = ~@]]_vars
  /\ [](entries.kind = "array" =>
          \A d \in Dates :
            StoredFor(entries, d.day) = {} =>
              FindByDate(entries.items, d) = NullEntry)

\* C2 witness: an entry stored with one time of day is what a query at the
\* other time of day of that day finds, while another day has no entry
C2_Witness ==
  /\ entries.kind = "array" /\ ~syncPending
  /\ currentEntry # NullEntry
  /\ currentEntry.prayers["fajr"] = TRUE
  /\ selectedDate.day = currentEntry.date.day
  /\ selectedDate.tod # currentEntry.date.tod
  /\ StoredFor(entries, currentEntry.date.day) = {currentEntry}
  /\ \E d \in Days : StoredFor(entries, d) = {}

\* C3 (as claimed): a restore of JSON that is not an array shows an explicit
\* error and leaves the in-memory collection and both storage keys as they
\* were.
C3_NonArrayRestoreRejected ==
  [][\A k \in NonArrayKinds :
       RestoreFile(JSONstringify(NonArr(k))) =>
         /\ alertMsg' \in {"invalid_format", "parse_failed"}
         /\ entries' = entries
         /\ lsEntries' = lsEntries
         /\ lsPro' = lsPro]_vars

\* a restore the build accepts: the file parses to an array and the build
\* wires a restore handler (App.tsx passes an empty function)
Accepted(content) ==
  /\ ~JSONparseThrows(content)
  /\ JSONparse(content).kind = "array"
  /\ build \in {"p4", "p5"}

\* C4: an accepted restore of X leaves in memory and under every storage key
\* the build writes exactly the entries of X (as a bag: nothing of the prior
\* collection is kept, nothing of X is lost); restoring the file of the
\* last export, in its exported order or reversed, gives back the same bag
\* of entries.
C4_RestoreReplaces ==
  [][(entries' # entries \/ alertMsg' = "restored") =>
     \A content \in FileContents :
       (Accepted(content) /\ RestoreFile(content)) =>
         /\ entries'.kind = "array"
         /\ SameBag(entries'.items, JSONparse(content).items)
         /\ lsEntries'.text = "json" /\ lsEntries'.val = entries'
         /\ build = "p5" =>
              (lsPro'.text = "json" /\ lsPro'.val.records = entries')
         /\ (backupFile.text = "json" /\
             content.val.items \in {backupFile.val.items,
                                    Reverse(backupFile.val.items)}) =>
              SameBag(entries'.items, entries.items)]_vars

\* C4 witness: the file of an export of a two-entry collection was restored
\* (the export is still the current collection) and success was reported
C4_Witness ==
  /\ alertMsg = "restored"
  /\ backupFile.text = "json"
  /\ entries.kind = "array" /\ Len(entries.items) = 2
  /\ lsEntries = JSONstringify(entries)

\* C9: the sync effect on a date that has no stored entry yields a blank
\* entry for that date and writes neither the collection nor storage; the
\* first edit of that blank entry stores it, and the query for its date then
\* returns the blank entry with only the edited prayer changed.
C9_BlankThenFirstUpsert ==
  /\ [][SyncEntryEffect =>
          /\ entries' = entries /\ lsEntries' = lsEntries /\ lsPro' = lsPro
          /\ StoredFor(entries, selectedDate.day) = {} =>
               (IsBlank(currentEntry') /\ currentEntry'.date = selectedDate)]_vars
  /\ [][\A key \in PrayerInputs :
          (UpdatePrayer(key) /\ IsBlank(currentEntry)
             /\ StoredFor(entries, currentEntry.date.day) = {}) =>
            LET got == FindByDate(entries'.items, currentEntry.date)
            IN /\ got.prayers[key] = TRUE
               /\ \A p \in Prayers \ {key} : got.prayers[p] = FALSE
               /\ got.quran = "null" /\ got.workout = "null"
               /\ got.skill = [done |-> "null", notes |-> ""]
               /\ got.customTasks = <<>> /\ got.diary = ""
               /\ got.id = currentEntry.id /\ got.date = currentEntry.date
               /\ lsEntries' = JSONstringify(entries')]_vars

\* C9 witness: a synthesized entry (no backup sample has this date) sits in
\* the store after its first edit, only fajr set
C9_Witness ==
  /\ entries.kind = "array"
  /\ \E i \in 1..Len(entries.items) :
       /\ entries.items[i].date = MkDate(MaxDay, 1)
       /\ entries.items[i].prayers["fajr"] = TRUE
       /\ \A p \in Prayers \ {"fajr"} : entries.items[i].prayers[p] = FALSE
       /\ entries.items[i].quran = "null"

\* C10 (as claimed): the store never holds two entries with the same day key
C10_OnePerDate ==
  entries.kind = "array" =>
    \A i, j \in 1..Len(entries.items) :
      i # j => DateKey(entries.items[i].date) # DateKey(entries.items[j].date)

\* C5 (as claimed): a settings update whose alarms sub-map names one field of
\* one prayer changes that field only: the alarms map keeps its keys, the
\* other prayers keep their alarm, the named alarm keeps its other field,
\* and storage holds the same settings.
C5_OnlyNamedFieldChanged(prayer, field) ==
  /\ DOMAIN settings'.alarms = DOMAIN settings.alarms
  /\ \A p \in (DOMAIN settings.alarms) \ {prayer} :
       settings'.alarms[p] = settings.alarms[p]
  /\ DOMAIN settings'.alarms[prayer] = DOMAIN settings.alarms[prayer]
  /\ \A f \in (DOMAIN settings.alarms[prayer]) \ {field} :
       settings'.alarms[prayer][f] = settings.alarms[prayer][f]
  /\ lsSettings' = JSONstringify(settings')

C5_PartialAlarmsMerged ==
  [][\A prayer \in AlarmInputs :
       /\ \A value \in BOOLEAN :
            (prayer \in DOMAIN settings.alarms
               /\ UpdatePartialAlarms(prayer, "enabled", value))
              => C5_OnlyNamedFieldChanged(prayer, "enabled")
       /\ \A value \in AlarmTimes :
            (prayer \in DOMAIN settings.alarms
               /\ UpdatePartialAlarms(prayer, "time", value))
              => C5_OnlyNamedFieldChanged(prayer, "time")]_vars

\* the records of a history, newest first by the time they were logged
MostRecentFirst(hist) ==
  \A i, j \in 1..Len(hist) : i < j => hist[i].isoDate > hist[j].isoDate

\* C6: the tasbeeh history, in memory and in storage, never has more than
\* 50 records and lists them most recent first; a logSession step puts the
\* new record at the head and keeps the rest in order, and when the list
\* was full it drops exactly the oldest record.
C6_HistoryCapped ==
  /\ [](/\ Len(history) <= HistoryCap
        /\ MostRecentFirst(history)
        /\ lsHistory.text = "json" => JSONparse(lsHistory) = history)
  /\ [][clock' # clock =>
          /\ history'[1].isoDate = clock'
          /\ \A i \in 1..Len(history) : history[i].isoDate < clock'
          /\ history' = IF Len(history) = HistoryCap
                        THEN <<history'[1]>> \o SubSeq(history, 1, HistoryCap - 1)
                        ELSE <<history'[1]>> \o history
          /\ JSONparse(lsHistory') = history']_vars

\* a full history whose oldest records have been evicted by later sessions
C6_Witness ==
  /\ Len(history) = HistoryCap
  /\ history[HistoryCap].isoDate > 1
  /\ history[1].isoDate > StartTime
  /\ JSONparse(lsHistory) = history

\* C7 (as claimed): once a string without a Gregorian month name has been
\* cached for a day key, every later call of fetchHijriDateOnline for that
\* key returns that string and puts no AI request in flight.
C7_CachedHijriReturned ==
  [][\A day \in Days :
       (firstCached[day] # NoCacheItem /\ FetchHijriDateOnline(day)) =>
         /\ hijriReturned' = [day |-> day, value |-> firstCached[day]]
         /\ hijriCalls' = hijriCalls]_vars

\* C8 (as claimed): after a call of fetchDailyInspiration has completed on
\* a calendar day, with fetched or with fallback content, every later call
\* on that day returns the same content and makes no network attempt.
C8_OncePerDay ==
  [][(inspiredOn = today /\ FetchDailyInspiration) =>
       /\ inspiration' = inspiration
       /\ inspCalls' = inspCalls]_vars

\* the entries of a stored array, each not earlier than the one after it
SortedDesc(items) ==
  \A i \in 1..(Len(items) - 1) :
    GetTime(items[i].date) >= GetTime(items[i + 1].date)

\* C11 (as claimed): whatever upserts, deletes and restores have run, the
\* entries held in storage are in descending order of date.
C11_PersistedSortedDesc ==
  /\ (lsEntries.text = "json" /\ lsEntries.val.kind = "array")
       => SortedDesc(lsEntries.val.items)
  /\ (lsPro.text = "json" /\ lsPro.val.records.kind = "array")
       => SortedDesc(lsPro.val.records.items)

\* the mutations of the entry store and the reload, with the Dashboard on
\* today's date or on the date of a stored record
NextStore ==
  \/ \E key \in PrayerInputs : UpdatePrayer(key)
  \/ \E id \in Ids : DeleteEntry(id)
  \/ \E content \in FileContents : RestoreFile(content)
  \/ StartupLoad
  \/ \E i \in DOMAIN entries.items : EditRecord(i)
  \/ SyncEntryEffect

SpecStore == InitEntries /\ [][NextStore]_vars

\* C12: storage that has been written holds the collection that is in
\* memory, under 'nur_daily_entries' and, in the build that writes it, in
\* the records of 'dailyTrackerProData'; every change of the collection in
\* memory is written; and a reload reads back the collection that was in
\* memory.
C12_PersistedEqualsMemory ==
  /\ [](lsEntries.text = "json" =>
          /\ JSONparse(lsEntries) = entries
          /\ build = "p5" =>
               (lsPro.text = "json" /\ JSONparse(lsPro).records = entries))
  /\ [][entries' # entries => lsEntries'.text = "json"]_vars
  /\ [][(StartupLoad /\ lsEntries.text = "json") => entries' = entries]_vars

\* C12 witness: in the build whose restore does nothing, the one stored
\* entry was deleted after its upsert, and storage holds the empty array
C12_Witness ==
  /\ build = "app"
  /\ entries = Arr(<<>>)
  /\ lsEntries = JSONstringify(Arr(<<>>))

\* a backup element that is not entry-shaped: an id and a date, no prayers
\* and no habit fields
ShapelessRecord == [id |-> 1, date |-> MkDate(1, 0)]

\* backup arrays that contain such an element
MalformedArrays == {<<ShapelessRecord>>, <<SampleList[2], ShapelessRecord>>}

\* the restore dialog, with backup files of either kind to pick from
NextRestoreShape ==
  \/ \E a \in MalformedArrays : RestoreFile(JSONstringify(Arr(a)))
  \/ \E content \in FileContents : RestoreFile(content)
  \/ \E key \in PrayerInputs : UpdatePrayer(key)
  \/ StartupLoad
  \/ SyncEntryEffect

SpecRestoreShape == InitEntries /\ [][NextRestoreShape]_vars

\* C13 (as claimed): the restore of an array that contains an element which
\* is not entry-shaped reports a failure and changes neither the collection
\* in memory nor any storage key.
C13_MalformedElementRejected ==
  [][\A a \in MalformedArrays :
       RestoreFile(JSONstringify(Arr(a))) =>
         /\ alertMsg' \in {"invalid_format", "parse_failed"}
         /\ entries' = entries
         /\ lsEntries' = lsEntries
         /\ lsPro' = lsPro]_vars

\* ------------------------------------------- settings at start-up and sync
\* what nur_daily_settings may hold when the page is opened: nothing, the
\* settings a run of this build wrote, a value without the fields a later
\* build added, a value whose alarms map names one prayer only, and a value
\* with a location
StoredLocation == "24.86,67.00"
PersistedSettings ==
  {NoSettingsItem,
   JSONstringify(ObjectSpread(DEFAULT_SETTINGS, [theme |-> "dark"])),
   JSONstringify([theme |-> "dark", notificationsEnabled |-> TRUE]),
   JSONstringify([theme |-> "dark",
                  alarms |-> [fajr |-> Alarm(TRUE, "05:00")]]),
   JSONstringify(ObjectSpread(DEFAULT_SETTINGS,
                              [autoPrayerTimes |-> TRUE,
                               location |-> StoredLocation]))}

InitSettingsLoad ==
  /\ build \in Builds
  /\ EntriesAtRest
  /\ settings = DEFAULT_SETTINGS
  /\ lsSettings \in PersistedSettings
  /\ timesSync = NoTimesSync
  /\ TasbeehAtRest
  /\ apiKey = TRUE
  /\ raised = {}
  /\ second = "later"
  /\ HijriAtRest
  /\ InspirationAtRest

\* the `Auto Mode` switch of SettingsView
ToggleAutoPrayerTimes ==
  UpdateSettings([autoPrayerTimes |-> ~settings.autoPrayerTimes])

\* the syncTimes effect of App runs for the committed render: with auto
\* mode on and a location it starts fetchPrayerTimesByLocation, and the call
\* keeps the settings of that render
SyncTimesEffect ==
  /\ build = "app"
  /\ timesSync.due
  /\ Len(timesSync.calls) < MaxInFlight
  /\ timesSync' =
       [due |-> FALSE,
        calls |-> IF settings.autoPrayerTimes /\ "location" \in DOMAIN settings
                  THEN Append(timesSync.calls, settings.alarms)
                  ELSE timesSync.calls]
  /\ UNCHANGED <<build, settings, lsSettings>>
  /\ UNCHANGED restOfSettings

\* what fetchPrayerTimesByLocation may resolve to: null, or the parsed JSON
\* of the response
NullTimes == [null |-> TRUE]
TimesInputs ==
  {NullTimes,
   [fajr |-> "04:45"],
   [fajr |-> "04:45", zuhr |-> "12:30", asar |-> "16:00",
    maghrib |-> "18:20", esha |-> "19:50", sunrise |-> "06:05"]}

\* newAlarms of syncTimes: the alarms of the render the effect ran for, with
\* the time of every prayer that both maps name replaced
SyncedAlarms(alarms, times) ==
  [p \in DOMAIN alarms |->
     IF p \in DOMAIN times THEN ObjectSpread(alarms[p], [time |-> times[p]])
     ELSE alarms[p]]

RemoveAt(s, i) == SubSeq(s, 1, i - 1) \o SubSeq(s, i + 1, Len(s))

\* the i-th waiting syncTimes call receives its times
SyncTimesResolve(i, times) ==
  /\ i \in 1..Len(timesSync.calls)
  /\ IF times = NullTimes
       THEN /\ timesSync' = [timesSync EXCEPT !.calls = RemoveAt(@, i)]
            /\ UNCHANGED <<build, settings, lsSettings>>
            /\ UNCHANGED restOfSettings
       ELSE /\ SetSettings([alarms |-> SyncedAlarms(timesSync.calls[i], times)])
            /\ timesSync' = [timesSync EXCEPT !.calls = RemoveAt(@, i)]

NextSettingsLoad ==
  \/ StartupLoadSettings
  \/ \E prayer \in AlarmInputs :
       \/ \E value \in BOOLEAN : UpdateAlarm(prayer, "enabled", value)
       \/ \E value \in AlarmTimes : UpdateAlarm(prayer, "time", value)
  \/ \E mode \in {"light", "dark"} : SetTheme(mode)
  \/ ToggleAutoPrayerTimes
  \/ SyncTimesEffect
  \/ \E i \in 1..MaxInFlight, times \in TimesInputs : SyncTimesResolve(i, times)

SpecSettingsLoad == InitSettingsLoad /\ [][NextSettingsLoad]_vars

\* C14: at any time the alarms map in memory has exactly the five keys fajr,
\* zuhr, asar, maghrib and esha, and so has the alarms map of the settings
\* in storage whenever the program writes them
C14_FiveAlarmKeys ==
  /\ [](DOMAIN settings.alarms = Prayers)
  /\ [][lsSettings' # lsSettings => DOMAIN JSONparse(lsSettings').alarms = Prayers]_vars

\* C15: the start-up load leaves the settings with every field of the
\* persisted value as persisted and every other field of the defaults at
\* its default
C15_PersistedOverDefaults ==
  [][StartupLoadSettings =>
       LET persisted == JSONparse(lsSettings) IN
         /\ DOMAIN settings' = DOMAIN DEFAULT_SETTINGS \cup DOMAIN persisted
         /\ \A f \in DOMAIN persisted : settings'[f] = persisted[f]
         /\ \A f \in DOMAIN DEFAULT_SETTINGS \ DOMAIN persisted :
              settings'[f] = DEFAULT_SETTINGS[f]]_vars

\* the settings of an earlier build, which had neither alarms nor auto mode,
\* have been loaded: theme and notifications as persisted, the rest default
C15_Witness ==
  /\ build = "p4"
  /\ lsSettings = JSONstringify([theme |-> "dark", notificationsEnabled |-> TRUE])
  /\ settings.theme = "dark"
  /\ settings.notificationsEnabled
  /\ settings.alarms = DEFAULT_SETTINGS.alarms
  /\ ~settings.autoPrayerTimes

\* --------------------------------------------- Hijri resolver, both copies
\* "part_001": the resolver of src/unnamed/part_001, which caches; "habibur":
\* the copy in src/components/SettingsView.tsx, which asks hijri.habibur.com
\* first and the AI second
HijriServices == {"part_001", "habibur"}

\* what the request to hijri.habibur.com can come to: fetch rejects, a status
\* that is not ok, a body that is not JSON, JSON that has no hijri field and
\* is no string, JSON with a hijri field, a JSON string
ApiFailures == {"unreachable", "status", "malformed", "shape"}
ApiOutcomes == ApiFailures \cup {"hijri", "string"}

\* what the AI request of the copy can come to: it fails, or it answers
AiOutcomes == {"fails", "text", "empty"}

HabiburText(day) == [h |-> "habibur", day |-> day]    \* `${h.day} ${h.month} ${h.year}`
HabiburString(day) == [h |-> "habibur string", day |-> day]
NumericHijri(day) == [h |-> "hijri numeric", day |-> day]
Rejected == [h |-> "rejected", day |-> 0]             \* the promise rejects

\* date.toLocaleDateString("en-u-ca-islamic-umalqura", options): `long` with
\* day, month and year named, numeric without options
ToLocaleDateString(day, long) ==
  CASE calendar = "umalqura" -> IF long THEN HijriOf(day) ELSE NumericHijri(day)
    [] calendar = "gregory" -> GregorianText(day)
    [] calendar = "throws" -> Rejected

InitHijriSources ==
  /\ build = "app"
  /\ EntriesAtRest
  /\ SettingsAtRest
  /\ TasbeehAtRest
  /\ service \in HijriServices
  /\ today = 1
  /\ inspCache = NoInspCache
  /\ inspCalls = <<>>
  /\ inspiration = NoInspiration
  /\ inspiredOn = 0
  /\ apiKey \in BOOLEAN
  /\ raised = {}
  /\ second = "later"
  /\ calendar \in Calendars
  /\ hijriCache = [d \in Days |-> NoCacheItem]
  /\ hijriCalls = [d \in Days |-> 0]
  /\ hijriReturned = NoHijriReturned
  /\ firstCached = [d \in Days |-> NoCacheItem]

\* fetchHijriDateOnline(date) of the copy up to the await of fetch(url)
FetchHijriDateOnline_Habibur(day) ==
  /\ service = "habibur"
  /\ hijriCalls[day] < MaxInFlight
  /\ hijriCalls' = [hijriCalls EXCEPT ![day] = @ + 1]
  /\ UNCHANGED <<calendar, hijriCache, firstCached, hijriReturned>>
  /\ UNCHANGED restOfHijri

\* what a call of the copy returns, given what its two requests come to; the
\* AI is asked only after the first request has failed, and a missing API
\* key throws inside the inner try
HabiburResult(day, api, ai) ==
  CASE api = "hijri" -> HabiburText(day)
    [] api = "string" -> HabiburString(day)
    [] api \in ApiFailures ->
         IF ~apiKey \/ ai = "fails" THEN ToLocaleDateString(day, TRUE)
         ELSE IF ai = "text" THEN FormalText(day)
         ELSE IF ToLocaleDateString(day, FALSE) = Rejected
              THEN ToLocaleDateString(day, TRUE)
              ELSE ToLocaleDateString(day, FALSE)

\* a waiting call of the copy settles; the copy reads and writes no storage
HabiburSettles(day, api, ai) ==
  /\ service = "habibur"
  /\ hijriCalls[day] > 0
  /\ hijriCalls' = [hijriCalls EXCEPT ![day] = @ - 1]
  /\ ReturnHijri(day, HabiburResult(day, api, ai))
  /\ UNCHANGED <<calendar, hijriCache, firstCached>>
  /\ UNCHANGED restOfHijri

NextHijriSources ==
  \/ service = "part_001" /\ NextHijri
  \/ \E day \in Days : FetchHijriDateOnline_Habibur(day)
  \/ \E day \in Days, api \in ApiOutcomes, ai \in AiOutcomes :
       HabiburSettles(day, api, ai)

SpecHijriSources == InitHijriSources /\ [][NextHijriSources]_vars

\* the texts of the AI that the cached resolver does not accept
UnusableAiTexts(day) == {GregorianText(day), ShortText, EmptyString}

\* a call for `day` settles after its remote source has failed
RemoteSourceFailed(day) ==
  \/ service = "part_001" /\ AiFails(day)
  \/ service = "part_001" /\ \E text \in UnusableAiTexts(day) : AiResponds(day, text)
  \/ /\ service = "part_001" /\ ~apiKey /\ ~CacheUsable(hijriCache[day])
     /\ FetchHijriDateOnline(day)
  \/ \E api \in ApiFailures, ai \in AiOutcomes : HabiburSettles(day, api, ai)

\* C16: in a browser that formats the Umm al-Qura calendar, whenever a Hijri
\* resolution settles after its remote or AI source failed, it returns the
\* locally computed Umm al-Qura date of its day, not an error, and that date
\* is then the cached value of the day key
C16_FallbackToLocalAndCached ==
  [][\A day \in Days :
       (calendar = "umalqura" /\ RemoteSourceFailed(day)) =>
         /\ hijriReturned' = [day |-> day, value |-> HijriOf(day)]
         /\ hijriCache'[day] = HijriOf(day)]_vars

\* an inspiration with an ayah and a hadith, each with text
BothHalves(data) ==
  /\ data.ayah \notin {EmptyPart, NotFetched}
  /\ data.hadith \notin {EmptyPart, NotFetched}

\* C17: the inspiration a call has resolved to, and the cached inspiration,
\* always have an ayah and a hadith with text, whatever the providers
\* answered
C17_BothHalvesPresent ==
  /\ inspiration # NoInspiration => BothHalves(inspiration)
  /\ inspCache # NoInspCache => BothHalves(inspCache.data)

\* ------------------------------------------- stored values that do not parse
GarbageSettings == [text |-> "garbage", val |-> [theme |-> "none"]]
GarbagePro == [text |-> "garbage", val |-> ProData(Arr(<<>>), MkDate(1, 0))]

\* the page is opened over storage in which any item may be missing, be
\* what the program wrote, or be text that JSON.parse does not accept
InitUnparsable ==
  /\ build \in Builds
  /\ entries = Arr(<<>>)
  /\ selectedDate = Now
  /\ lsEntries \in {NoItem, GarbageText, JSONstringify(Arr(<<SampleList[1]>>))}
  /\ lsPro \in {NoPro, GarbagePro}
  /\ currentEntry = NullEntry
  /\ hijriDateStr = HijriLoading
  /\ syncPending = TRUE
  /\ backupFile = NoItem
  /\ alertMsg = "none"
  /\ settings = DEFAULT_SETTINGS
  /\ lsSettings \in {NoSettingsItem, GarbageSettings,
                     JSONstringify(ObjectSpread(DEFAULT_SETTINGS, [theme |-> "dark"]))}
  /\ timesSync = NoTimesSync
  /\ TasbeehAtRest
  /\ apiKey = TRUE
  /\ raised = {}
  /\ second = "later"
  /\ HijriAtRest
  /\ service \in Services
  /\ today = 1
  /\ inspCache \in {NoInspCache, UnparsableCache,
                    [date |-> 1, data |-> DailyInspiration("ayah 1", "hadith 1")]}
  /\ inspCalls = <<>>
  /\ inspiration = NoInspiration
  /\ inspiredOn = 0

\* the start-up load effect of src/App.tsx where JSON.parse of a stored item
\* throws: nothing catches it, and no state is set from the item (the catch
\* of part_004 and part_005 logs and leaves the default settings)
StartupLoadThrows ==
  /\ build = "app"
  /\ \/ lsEntries.text = "garbage" /\ raised' = raised \cup {"nur_daily_entries"}
     \/ /\ lsEntries.text # "garbage" /\ lsSettings.text = "garbage"
        /\ raised' = raised \cup {"nur_daily_settings"}
  /\ UNCHANGED <<entryVars, settingsVars, tasbeehVars, apiKey, second,
                 hijriVars, inspirationVars>>

\* a fetchDailyInspiration() or a Dashboard effect whose
\* getCachedInspiration() throws: the promise rejects, or the effect
\* throws, and setInspiration is not called
FetchDailyInspirationThrows ==
  /\ GetCachedInspirationThrows
  /\ raised' = raised \cup {"daily_inspiration_cache"}
  /\ UNCHANGED <<entryVars, settingsVars, tasbeehVars, apiKey, second,
                 hijriVars, inspirationVars>>

NextUnparsable ==
  \/ StartupLoad
  \/ StartupLoadSettings
  \/ StartupLoadThrows
  \/ NextInspiration
  \/ FetchDailyInspirationThrows

SpecUnparsable == InitUnparsable /\ [][NextUnparsable]_vars

\* C18: no read of a stored value that does not parse raises an error, the
\* start-up load over such a value leaves the entries and the settings as
\* without it, and a resolution over such an inspiration cache goes on as
\* on a cache miss: it asks its provider or returns the fallback
C18_UnparsableReadAsAbsent ==
  /\ [](raised = {})
  /\ [][(StartupLoad /\ lsEntries.text = "garbage" /\ lsPro.text # "json")
          => entries' = Arr(<<>>)]_vars
  /\ [][(FetchDailyInspiration /\ inspCache = UnparsableCache)
          => \/ Len(inspCalls') = Len(inspCalls) + 1
             \/ inspiration' = GeminiFallback]_vars

\* --------------------------------------------- Dashboard: the Hijri string
\* Dashboard.updateHijriDate(targetDate) awaits fetchHijriDateOnline and
\* hands whatever it resolves to to setHijriDateStr.
restOfHijriDisplay ==
  <<build, entries, lsEntries, lsPro, currentEntry, syncPending, backupFile,
    alertMsg, settingsVars, tasbeehVars, envVars, inspirationVars>>

InitHijriDisplay ==
  /\ build = "app"
  /\ EntriesAtRest
  /\ SettingsAtRest
  /\ TasbeehAtRest
  /\ InspirationAtRest
  /\ apiKey \in BOOLEAN
  /\ raised = {}
  /\ second = "later"
  /\ calendar \in Calendars
  /\ hijriCache = [d \in Days |-> NoCacheItem]
  /\ hijriCalls = [d \in Days |-> 0]
  /\ hijriReturned = NoHijriReturned
  /\ firstCached = [d \in Days |-> NoCacheItem]

\* no updateHijriDate call awaits its resolver
AllSettled == \A d \in Days : hijriCalls[d] = 0

\* the date effect has run at least once
Mounted == hijriReturned # NoHijriReturned \/ ~AllSettled

\* updateHijriDate(targetDate) up to the await that does not settle at once
UpdateHijriDate(day) ==
  /\ FetchHijriDateOnline_Body(day)
  /\ hijriDateStr' = hijriReturned'.value

\* the date effect of the first render: updateHijriDate(date)
MountDashboard ==
  /\ ~Mounted
  /\ UpdateHijriDate(DateKey(selectedDate))
  /\ UNCHANGED selectedDate
  /\ UNCHANGED restOfHijriDisplay

\* the date prop changes (date input, handleRefreshToToday, a record opened
\* for editing) and the date effect calls updateHijriDate(date)
DateChanges(d) ==
  /\ Mounted
  /\ selectedDate' = d
  /\ UpdateHijriDate(DateKey(d))
  /\ UNCHANGED restOfHijriDisplay

\* a waiting updateHijriDate call gets the answer of the AI:
\* setHijriDateStr(result)
HijriResolves(day, text) ==
  /\ AiResponds_Body(day, text)
  /\ hijriDateStr' = hijriReturned'.value
  /\ UNCHANGED selectedDate
  /\ UNCHANGED restOfHijriDisplay

\* a waiting updateHijriDate call gets the system date after the AI failed
HijriFallsBack(day) ==
  /\ AiFails_Body(day)
  /\ hijriDateStr' = hijriReturned'.value
  /\ UNCHANGED selectedDate
  /\ UNCHANGED restOfHijriDisplay

NextHijriDisplay ==
  \/ MountDashboard
  \/ \E day \in Days : DateChanges(PickedDate(day))
  \/ DateChanges(Now)
  \/ \E day \in Days : \E text \in AiTexts(day) : HijriResolves(day, text)
  \/ \E day \in Days : HijriFallsBack(day)

SpecHijriDisplay == InitHijriDisplay /\ [][NextHijriDisplay]_vars

\* C19: whenever no Hijri resolution is in flight, the displayed Hijri
\* string is one resolved for the selected date (or, where the browser
\* cannot format the calendar, the notice that no date is available)
C19_DisplayedHijriIsForSelectedDate ==
  (Mounted /\ AllSettled) =>
    \/ hijriDateStr.day = DateKey(selectedDate)
    \/ hijriDateStr = IslamicDateUnavailable

\* ------------------------------------------ Dashboard: the midnight watcher
InitRollover ==
  /\ build = "app"
  /\ EntriesAtRest
  /\ SettingsAtRest
  /\ TasbeehAtRest
  /\ HijriAtRest
  /\ apiKey \in BOOLEAN
  /\ raised = {}
  /\ second = "later"
  /\ service \in Services
  /\ today = 1
  /\ inspCache = NoInspCache
  /\ inspCalls = <<>>
  /\ inspiration = NoInspiration
  /\ inspiredOn = 0

\* the calendar date advances: the wall clock reads 00:00:00 of the next day
MidnightStrikes ==
  /\ today < MaxDay
  /\ today' = today + 1
  /\ second' = "00:00:00"
  /\ UNCHANGED <<entryVars, settingsVars, tasbeehVars, apiKey, raised,
                 hijriVars, service, inspCache, inspCalls, inspiration,
                 inspiredOn>>

\* the first second of the day ends without a tick of the one-second
\* interval in it (the timer runs late, or the tab is throttled)
SecondPasses ==
  /\ second = "00:00:00"
  /\ second' = "later"
  /\ UNCHANGED <<entryVars, settingsVars, tasbeehVars, apiKey, raised,
                 hijriVars, inspirationVars>>

\* a tick of the interval lands in second 00:00:00: onDateChange(today),
\* fetchDailyInspiration().then(setInspiration), updateHijriDate(today)
MidnightWatcher ==
  /\ second = "00:00:00"
  /\ second' = "later"
  /\ selectedDate' = MkDate(today, 0)
  /\ FetchDailyInspiration_Body
  /\ UpdateHijriDate(today)
  /\ UNCHANGED <<build, entries, lsEntries, lsPro, currentEntry, syncPending,
                 backupFile, alertMsg, settingsVars, tasbeehVars, apiKey,
                 raised>>

\* a provider settles a waiting inspiration call
InspirationSettles ==
  \/ \E i \in 1..MaxInFlight : \E result \in GeminiResults :
       GeminiResponds(i, result)
  \/ \E i \in 1..MaxInFlight : GeminiFails(i)
  \/ \E i \in 1..MaxInFlight :
       \E ayah \in Ayahs \cup {NotFetched, FallbackAyah} :
         QuranResponds(i, ayah)
  \/ \E i \in 1..MaxInFlight :
       \E hadith \in Hadiths \cup {NotFetched, FallbackHadith} :
         HadithResponds(i, hadith)

\* the AI settles a waiting updateHijriDate call
HijriSettles ==
  \/ \E day \in Days : \E text \in AiTexts(day) : HijriResolves(day, text)
  \/ \E day \in Days : HijriFallsBack(day)

NextRollover ==
  \/ MountDashboard
  \/ FetchDailyInspiration
  \/ DateChanges(MkDate(today, 0))
  \/ MidnightStrikes
  \/ SecondPasses
  \/ MidnightWatcher
  \/ InspirationSettles
  \/ HijriSettles

\* time passes, the interval keeps ticking and every request is answered;
\* nothing obliges a tick to land in second 00:00:00 or the user to act
FairRollover ==
  /\ WF_vars(MidnightStrikes)
  /\ WF_vars(SecondPasses \/ MidnightWatcher)
  /\ WF_vars(InspirationSettles)
  /\ WF_vars(HijriSettles)

SpecRollover == InitRollover /\ [][NextRollover]_vars /\ FairRollover

\* C20: once an inspiration is displayed, on every day the calendar reaches
\* an inspiration call completes on that day or later, so that the
\* inspiration of an earlier day does not stay displayed for ever
C20_RolloverReResolves ==
  \A d \in Days :
    (today = d /\ inspiration # NoInspiration) ~> (inspiredOn >= d)

\* C21: a call that misses the cache asks the primary source, once, before
\* anything computed locally or the placeholder is returned: with an API key
\* it leaves exactly one more request waiting and returns nothing yet, and
\* the answer or the failure of that request settles the call without a
\* second request; the placeholder is returned only when the local
\* computation fails
C21_PrimaryOnceBeforeLocal ==
  /\ [][\A day \in Days :
          (FetchHijriDateOnline(day) /\ ~CacheUsable(hijriCache[day]) /\ apiKey)
            => /\ hijriCalls'[day] = hijriCalls[day] + 1
               /\ hijriReturned' = hijriReturned]_vars
  /\ [][\A day \in Days :
          (AiFails(day) \/ \E text \in AiTexts(day) : AiResponds(day, text))
            => hijriCalls'[day] = hijriCalls[day] - 1]_vars
  /\ [][hijriReturned'.value = IslamicDateUnavailable
          => ~Truthy(GetSystemHijriDate(hijriReturned'.day))]_vars

\* a call of the cached resolver for `day` returns in this step
HijriCallReturns(day) ==
  \/ FetchHijriDateOnline(day) /\ hijriCalls' = hijriCalls
  \/ AiFails(day)
  \/ \E text \in AiTexts(day) : AiResponds(day, text)

\* C22: a call that finds a cached value with a Gregorian month name for
\* its day returns a string without one, and the value cached for the day
\* after the call has none either
C22_GregorianCacheReResolved ==
  [][\A day \in Days :
       (IncludesGregorianMonth(hijriCache[day]) /\ HijriCallReturns(day))
         => /\ ~IncludesGregorianMonth(hijriReturned'.value)
            /\ ~IncludesGregorianMonth(hijriCache'[day])]_vars

\* the string carries a year of the Islamic era
HasIslamicYear(str) == str.h \in {"hijri", "formal", "hijri numeric", "habibur"}

\* C23: an answer of the AI that carries no Islamic year is neither returned
\* nor cached: the call returns and caches the locally computed date
C23_YearlessResultRejected ==
  [][\A day \in Days : \A text \in AiTexts(day) :
       (AiResponds(day, text) /\ ~HasIslamicYear(text))
         => /\ hijriReturned'.value = GetSystemHijriDate(day)
            /\ hijriCache'[day] = GetSystemHijriDate(day)]_vars

\* C24: a call whose local computation fails returns the placeholder and
\* leaves the cache and the requests in flight as they were, and at no time
\* does a cache entry hold the placeholder or the empty string
C24_PlaceholderNeverCached ==
  /\ [](\A d \in Days : hijriCache[d] \notin {IslamicDateUnavailable, EmptyString})
  /\ [][\A day \in Days :
          (/\ FetchHijriDateOnline(day)
           /\ ~CacheUsable(hijriCache[day])
           /\ ~Truthy(GetSystemHijriDate(day)))
            => /\ hijriReturned' = [day |-> day, value |-> IslamicDateUnavailable]
               /\ hijriCache' = hijriCache
               /\ hijriCalls' = hijriCalls]_vars

\* a call for the last day has returned the placeholder, and the day key is
\* still without a value
C24_Witness ==
  /\ calendar = "throws"
  /\ hijriReturned = [day |-> MaxDay, value |-> IslamicDateUnavailable]
  /\ hijriCache[MaxDay] = NoCacheItem

\* C25: a resolver call returns the cached inspiration, and asks nobody,
\* exactly when the stored date is today's; otherwise, so after the date
\* has advanced, it attempts a resolution: a request goes out, or without
\* an API key the attempt fails at once and gives the fallback
C25_CacheValidForTodayOnly ==
  [][FetchDailyInspiration =>
       IF inspCache # NoInspCache /\ inspCache.date = today
       THEN /\ inspiration' = inspCache.data
            /\ inspCalls' = inspCalls
            /\ inspCache' = inspCache
       ELSE \/ Len(inspCalls') = Len(inspCalls) + 1
            \/ /\ service = "gemini" /\ ~apiKey
               /\ inspiration' = GeminiFallback]_vars

\* the date has advanced past the day of the cached inspiration, and a call
\* made on the new day waits for its provider
C25_Witness ==
  /\ inspCache # NoInspCache
  /\ inspCache.date < today
  /\ \E i \in DOMAIN inspCalls : inspCalls[i].todayStr = today

\* C26: whatever the verse fetch of a two-provider resolution comes to, the
\* call goes on to the Hadith fetch, once; whatever the Hadith fetch comes
\* to, the call then ends; and the result carries the verse that was
\* fetched and the hadith that was fetched, whether or not the other fetch
\* failed
C26_SubFetchesIndependent ==
  /\ [][\A i \in 1..MaxInFlight : \A ayah \in Ayahs \cup {NotFetched, FallbackAyah} :
          QuranResponds(i, ayah)
            => /\ Len(inspCalls') = Len(inspCalls)
               /\ inspCalls'[i].awaits = "hadith"
               /\ inspCalls'[i].ayah = ayah]_vars
  /\ [][\A i \in 1..MaxInFlight : \A hadith \in Hadiths \cup {NotFetched, FallbackHadith} :
          HadithResponds(i, hadith)
            => /\ inspCalls' = WithoutCall(i)
               /\ inspCalls[i].ayah \in Ayahs => inspiration'.ayah = inspCalls[i].ayah
               /\ hadith \in Hadiths => inspiration'.hadith = hadith]_vars

\* the verse fetch failed and the hadith that was fetched is displayed
C26_Witness ==
  /\ service = "apis"
  /\ inspiration = DailyInspiration(FallbackAyah, "hadith 1")

\* a step that puts a new session record at the head of the history
SessionLogged ==
  /\ history' # history
  /\ Len(history') > 0
  /\ Head(history').isoDate = clock'
  /\ clock' = clock + 1
  /\ Slice(history', 1, Len(history')) = Slice(history, 0, Len(history') - 1)

\* a step of resetCount(): the reset button, a target button or a phrase
\* button
ResetIssued ==
  \/ ClickReset
  \/ \E val \in TargetInputs : SelectTarget(val)
  \/ \E opt \in DhikrInputs : SelectDhikr(opt)

\* C27: a session record is logged exactly when a tap brings the count to a
\* finite target (the record carries the target as its count, and no later
\* tap of the same run logs again), or when a reset is issued with an
\* infinite target and a non-zero count; a reset with a finite target or a
\* zero count logs nothing, every reset leaves the count at zero, and no
\* other step changes the history.
C27_LoggedAtTargetOrFreeReset ==
  /\ [][HandleIncrement =>
          /\ SessionLogged <=> (target > 0 /\ count' = target)
          /\ ~SessionLogged => history' = history
          /\ SessionLogged => Head(history').count = target]_vars
  /\ [][ResetIssued =>
          /\ count' = 0
          /\ SessionLogged <=> (count > 0 /\ target = 0)
          /\ ~SessionLogged => history' = history]_vars
  /\ [][history' # history => HandleIncrement \/ ResetIssued]_vars

\* a tap has just brought the count to the finite target and the session is
\* at the head of the history
C27_Witness ==
  /\ target > 0
  /\ count = target
  /\ Len(history) > 0
  /\ Head(history).isoDate = clock
  /\ clock > StartTime
  /\ Head(history).count = target

\* a step of a target button or of a phrase button
SwitchIssued ==
  \/ \E val \in TargetInputs : SelectTarget(val)
  \/ \E opt \in DhikrInputs : SelectDhikr(opt)

\* C28: switching the phrase or the target sets the count to zero and leaves
\* the history as it was, except when the count before the switch was
\* non-zero and the target before the switch was infinite: then exactly one
\* record is logged, with the count and the phrase of before the switch.
C28_SwitchResetsAndLogsOldRun ==
  [][SwitchIssued =>
       /\ count' = 0
       /\ IF count > 0 /\ target = 0
            THEN /\ SessionLogged
                 /\ Head(history').count = count
                 /\ Head(history').label = selectedDhikr
                 /\ Len(history') = IF Len(history) < HistoryCap
                                      THEN Len(history) + 1 ELSE HistoryCap
            ELSE history' = history /\ lsHistory' = lsHistory]_vars

\* a phrase button has ended a free run: its record carries the count of the
\* run and the phrase of before the switch
C28_Witness ==
  /\ count = 0
  /\ target = 0
  /\ Len(history) > 0
  /\ Head(history).isoDate = clock
  /\ clock > StartTime
  /\ Head(history).count \in 1..MaxFree
  /\ Head(history).label # selectedDhikr

\* ------------------------------ Dashboard: handlers of the render on screen
\* saveEntry changes `entries` only.  currentEntry follows when the entry
\* sync effect has run and the render that its setCurrentEntry asks for has
\* been committed; until then the handlers on screen are those of the render
\* before, which close over the currentEntry of that render.
SimpleFields == {"quran", "workout"}
ToggleValues == {"Yes", "No"}

\* updatePrayer(key) of the render on screen
UpdatePrayerOnScreen(key) ==
  /\ currentEntry # NullEntry
  /\ SaveEntry([currentEntry EXCEPT !.prayers[key] = ~currentEntry.prayers[key]])

\* handleSimpleToggle(field, value) of the render on screen
HandleSimpleToggle(field, value) ==
  /\ currentEntry # NullEntry
  /\ SaveEntry([currentEntry EXCEPT ![field] = value])

NextOnScreen ==
  \/ \E key \in PrayerInputs : UpdatePrayerOnScreen(key)
  \/ \E field \in SimpleFields, value \in ToggleValues :
       HandleSimpleToggle(field, value)
  \/ \E day \in Days : PickDate(day)
  \/ SyncEntryEffect

SpecOnScreen == InitEntries /\ [][NextOnScreen]_vars

\* the stored entry of the day that the entry on screen belongs to
StoredOnScreen(v) == FindByDate(v.items, currentEntry.date)

\* C29: a field edit made through the dashboard changes only that field of
\* the stored entry of its date, also when it is issued before the snapshot
\* of the dashboard has been synchronised with the store again: after the
\* edit the stored entry is the one stored before it with the edited field
\* changed, so that two edits of different fields are both kept.
C29_EditChangesOnlyItsField ==
  /\ [][\A field \in SimpleFields, value \in ToggleValues :
          (HandleSimpleToggle(field, value)
             /\ StoredOnScreen(entries) # NullEntry)
            => StoredOnScreen(entries') =
                 [StoredOnScreen(entries) EXCEPT ![field] = value]]_vars
  /\ [][\A key \in PrayerInputs :
          (UpdatePrayerOnScreen(key) /\ StoredOnScreen(entries) # NullEntry)
            => StoredOnScreen(entries') =
                 [StoredOnScreen(entries) EXCEPT
                    !.prayers[key] = ~@]]_vars

\* ------------------------- Dashboard: Hijri resolution and the first edit
\* The entry sync effect depends on [date, entries, hijriDateStr]: it is due
\* again when the date changes and when setHijriDateStr puts another string.
restOfFirstEdit ==
  <<build, entries, lsEntries, lsPro, currentEntry, backupFile, alertMsg,
    settingsVars, tasbeehVars, envVars, inspirationVars>>

\* onDateChange(d): the date effect calls updateHijriDate(date) and the entry
\* sync effect is due
DateChangesOnDashboard(d) ==
  /\ Mounted
  /\ ~syncPending
  /\ selectedDate' = d
  /\ UpdateHijriDate(DateKey(d))
  /\ syncPending' = TRUE
  /\ UNCHANGED restOfFirstEdit

\* a waiting updateHijriDate call settles, with the answer of the AI or with
\* the system date after the AI failed: setHijriDateStr(result)
HijriArrives(day) ==
  /\ \/ \E text \in AiTexts(day) : AiResponds_Body(day, text)
     \/ AiFails_Body(day)
  /\ hijriDateStr' = hijriReturned'.value
  /\ syncPending' = (syncPending \/ hijriDateStr' # hijriDateStr)
  /\ UNCHANGED selectedDate
  /\ UNCHANGED restOfFirstEdit

\* the entry sync effect, which follows the date effect in every commit
SyncEntryAfterDateEffect == Mounted /\ SyncEntryEffect

\* a browser that formats the Umm al-Qura calendar
InitFirstEdit == InitHijriDisplay /\ calendar = "umalqura"

NextFirstEdit ==
  \/ MountDashboard
  \/ SyncEntryAfterDateEffect
  \/ \E key \in PrayerInputs : UpdatePrayer(key)
  \/ \E day \in Days : DateChangesOnDashboard(PickedDate(day))
  \/ DateChangesOnDashboard(Now)
  \/ \E day \in Days : HijriArrives(day)

SpecFirstEdit == InitFirstEdit /\ [][NextFirstEdit]_vars

\* C30: every stored entry carries as hijriDate a string that the resolver
\* returned for the date of that entry, never the loading placeholder and
\* never the Hijri date of another day (a resolver result that names no day,
\* such as the notice that no date is available, counts as resolved).
C30_StoredHijriIsOfOwnDate ==
  \A i \in 1..Len(entries.items) :
    LET e == entries.items[i]
    IN /\ e.hijriDate # HijriLoading
       /\ e.hijriDate.day # 0 => e.hijriDate.day = DateKey(e.date)

====
